---- MODULE Spec2Model ----
(***************************************************************************)
(* sourcetools: the Clause Builder (astoid.py) and the Block Grouper       *)
(* (cnode.py).  Every operator below is the translation of the Python      *)
(* function named in its comment; exceptions are values (the field exc of  *)
(* the interpreter state) that propagate exactly as Python propagates      *)
(* them.                                                                   *)
(***************************************************************************)
EXTENDS Integers, Sequences, FiniteSets, TLC

VARIABLES
    source,     \* the syntax tree ast.parse(source) gives astoid.parse
    pc,         \* "start" before the call, "done" after it returned or raised
    heap,       \* the interpreter state after the call: Astoid objects, lists, exc
    result,     \* what astoid.parse returned, when it returned
    clauses,    \* the clause iterator handed to the Block Grouper loop
    grouper,    \* the local variables of the loop of cnode.parse
    codenodes,  \* the code nodes of codetree.py: class and children of each
    walker,     \* the generator a call of walk() returned, and what it yielded
    codetree    \* the directories code_tree looks at, its target and its outcome

vars == <<source, pc, heap, result, clauses, grouper, codenodes, walker, codetree>>

(***************************************************************************)
(* Bounds of the model.                                                    *)
(***************************************************************************)
MaxNodes == 5       \* statements in a syntax tree below the Module node
MaxHandlers == 2    \* except handlers of one try statement
MaxClauses == 3     \* clauses in the iterator of the Block Grouper
MaxDepth == 3       \* Block Nodes open at once in a drawn state of the Block Grouper
MaxTree == 4        \* nodes of a tree handed to walk()
MaxRuns == 2        \* iterators requested of one tree
MaxDirs == 5        \* directories between the filesystem root and the target file
MaxLinked == 5      \* nodes of a tree handed to the link helpers

(***************************************************************************)
(* Python's None, Ellipsis (...) and object references.  A reference to    *)
(* the i-th object created is the number i >= 1.  Missing stands for a     *)
(* positional argument the call does not pass.                             *)
(***************************************************************************)
NoneRef == 0
Ellipsis == -1
Missing == -2

(***************************************************************************)
(* Syntax trees, as ast.parse builds them.  A node keeps its kind, its     *)
(* statement lists and elif_line: whether the source line of the node,     *)
(* stripped on the left, starts with 'elif'.                               *)
(***************************************************************************)
Node(kind, body, orelse, handlers, finalbody, elif_line) ==
    [kind |-> kind, body |-> body, orelse |-> orelse, handlers |-> handlers,
     finalbody |-> finalbody, elif_line |-> elif_line]

Simple == Node("Expr", <<>>, <<>>, <<>>, <<>>, FALSE)

\* Gen[n].stmt: the statements of exactly n nodes; Gen[n].body: the non-empty
\* statement lists of exactly n nodes (the empty list for n = 0);
\* Gen[n].handlers: the handler lists whose bodies total n nodes.
\* The grammar is Python's: a compound statement has a non-empty body, an
\* 'elif' is the only statement of the orelse of an if, a try has a handler
\* or a finally, and an else only with a handler.  A node of kind Match is a
\* match statement (ast.Match, a kind _parse does not test for); its body is
\* the statements of its case.
Gen[n \in 0..MaxNodes] ==
    IF n = 0
    THEN [stmt |-> {}, body |-> {<<>>}, handlers |-> {<<>>}]
    ELSE
    LET Body(m) == Gen[m].body
        Stmt(m) == Gen[m].stmt
        Hand(m) == Gen[m].handlers
        defs == IF n = 1 THEN {}
                ELSE { Node(k, b, <<>>, <<>>, <<>>, FALSE) :
                         k \in {"FunctionDef", "Match"}, b \in Body(n-1) }
        fors == UNION { { Node("For", b, e, <<>>, <<>>, FALSE) :
                            b \in Body(i), e \in Body(n-1-i) } : i \in 1..(n-1) }
        ifs(el) ==
            UNION { { Node("If", b, e, <<>>, <<>>, el) : b \in Body(i), e \in Body(n-1-i) }
                    \cup { Node("If", b, <<[e EXCEPT !.elif_line = TRUE]>>, <<>>, <<>>, el) :
                            b \in Body(i),
                            e \in { s \in Stmt(n-1-i) : s.kind = "If" } }
                  : i \in 1..(n-1) }
        trys == UNION { UNION { UNION {
                    { Node("Try", b, e, h, f, FALSE) :
                        b \in Body(i), h \in Hand(j), e \in Body(k), f \in Body(n-1-i-j-k) }
                    : k \in IF j = 0 THEN {0} ELSE 0..(n-1-i-j) }
                    : j \in IF n-1-i = 0 THEN {} ELSE 0..(n-1-i) }
                    : i \in 1..(n-1) }
        stmtN == (IF n = 1 THEN {Simple} ELSE {})
                 \cup defs \cup fors \cup ifs(FALSE)
                 \cup { t \in trys : Len(t.handlers) > 0 \/ Len(t.finalbody) > 0 }
        bodyN == UNION { { <<s>> \o r : s \in (IF i = n THEN stmtN ELSE Stmt(i)),
                                         r \in Body(n-i) } : i \in 1..n }
        handN == UNION { { <<Node("ExceptHandler", b, <<>>, <<>>, <<>>, FALSE)>> \o r :
                             b \in (IF i = n THEN bodyN ELSE Body(i)),
                             r \in { q \in Hand(n-i) : Len(q) < MaxHandlers } }
                         : i \in 1..n }
    IN [stmt |-> stmtN, body |-> bodyN, handlers |-> handN]

\* What ast.parse can return: a Module over any statement list.
Sources ==
    { Node("Module", b, <<>>, <<>>, <<>>, FALSE) :
        b \in UNION { Gen[n].body : n \in 0..MaxNodes } }

(***************************************************************************)
(* The interpreter state an operator takes and returns:                    *)
(*   astoids  the Astoid objects, in creation order (a reference is an     *)
(*            index);                                                      *)
(*   lists    the Python list objects (homerooms and children lists), so   *)
(*            that two names of one list see the same appends;             *)
(*   exc      "" or the exception that is propagating;                     *)
(*   ret      the value the last call returned.                            *)
(***************************************************************************)
EmptyHeap == [astoids |-> <<>>, lists |-> <<>>, exc |-> "", ret |-> NoneRef]

Raise(st, e) == [st EXCEPT !.exc = e]
Return(st, v) == [st EXCEPT !.ret = v]

\* list = []
NewList(st) == [st EXCEPT !.lists = Append(@, <<>>), !.ret = Len(st.lists) + 1]
\* list.append(x)
ListAppend(st, list, x) == [st EXCEPT !.lists[list] = Append(@, x)]

\* class CodeClause(Enum)
CodeClause == {"BODY", "ELIF", "ELSE", "EXCEPT", "FINALLY"}
\* The clause tag None.
NoClause == "None"

\* The builtin type called with two arguments, as Astoid.__init__ calls it:
\* "TypeError: type() takes 1 or 3 arguments".
type(ast_node, clause) ==
    [exc |-> "TypeError: type() takes 1 or 3 arguments", val |-> <<>>]

\* Astoid.__init__, lines 187-191: st1 is the state with the new object self,
\* st the state before the call.
AstoidLink(st1, self, predecessor, st) ==
    IF predecessor # NoneRef
    THEN IF st1.astoids[predecessor].successor = Ellipsis
         THEN [st1 EXCEPT !.astoids[predecessor].successor = self]
         ELSE Raise(st, "Exception: Multiple successors")
    ELSE st1

\* Astoid.__init__, lines 175-185, given t, the outcome of line 178.  The new
\* object is the next index of astoids and self.children the next list.
AstoidFields(st, t, ast_node, parent_astoid, clause, homeroom, predecessor) ==
    IF t.exc # "" THEN Raise(st, t.exc)
    ELSE AstoidLink(
            [st EXCEPT !.astoids = Append(@, [ast_node |-> ast_node,
                                              clause |-> clause,
                                              type |-> t.val,
                                              parent |-> parent_astoid,
                                              homeroom |-> homeroom,
                                              children |-> Len(st.lists) + 1,
                                              prev_sibling |-> Ellipsis,
                                              next_sibling |-> Ellipsis,
                                              successor |-> Ellipsis,
                                              predecessor |-> predecessor]),
                      !.lists = Append(@, <<>>),
                      !.ret = Len(st.astoids) + 1],
            Len(st.astoids) + 1, predecessor, st)

\* Astoid.__init__, lines 192-193: self.line_index = ast_node.lineno-1 and
\* self.col_offset = ast_node.col_offset.  An ast.Module has neither attribute.
\* a is the state the lines before left, st the state before the call.
AstoidPosition(a, ast_node, st) ==
    IF a.exc # "" THEN a
    ELSE IF ast_node.kind = "Module"
    THEN Raise(st, "AttributeError: 'Module' object has no attribute 'lineno'")
    ELSE a

\* Astoid(source_lines, ast_node, parent_astoid, clause, homeroom, predecessor);
\* ret is the new object.  A call that passes five arguments leaves
\* predecessor Missing, and Python raises before the body runs.  When the
\* body raises, the object is unreachable and the state is as it was.
Astoid(st, ast_node, parent_astoid, clause, homeroom, predecessor) ==
    IF predecessor = Missing
    THEN Raise(st, "TypeError: __init__() missing 1 required positional argument: 'predecessor'")
    ELSE AstoidPosition(AstoidFields(st, type(ast_node, clause), ast_node, parent_astoid,
                                     clause, homeroom, predecessor),
                        ast_node, st)

\* The node kinds the first three isinstance tests of _parse name.
BodyOnlyKinds == {"Module", "FunctionDef", "AsyncFunctionDef", "ClassDef", "With", "AsyncWith"}
LoopKinds == {"For", "AsyncFor", "While"}

RECURSIVE _parse(_, _, _, _, _)
RECURSIVE ParseChildren(_, _, _, _)
RECURSIVE ParseHandlers(_, _, _, _)

\* for child_ast_node in <stmts>:
\*     predecessor_astoid = _parse(source_lines, child_ast_node, astoid,
\*                                 astoid.children, predecessor_astoid)
\* ret is predecessor_astoid after the loop.
ParseRest(s1, stmts, astoid) == ParseChildren(s1, stmts, astoid, s1.ret)

ParseChildren(st, stmts, astoid, predecessor_astoid) ==
    IF st.exc # "" THEN st
    ELSE IF stmts = <<>> THEN Return(st, predecessor_astoid)
    ELSE ParseRest(_parse(st, Head(stmts), astoid, st.astoids[astoid].children,
                          predecessor_astoid),
                   Tail(stmts), astoid)

\* homeroom.append(astoid); predecessor_astoid = astoid; for child in <stmts>: ...
\* where a is the state the call of Astoid left.
AppendAndDescend(a, homeroom, stmts) ==
    IF a.exc # "" THEN a
    ELSE ParseChildren(ListAppend(a, homeroom, a.ret), stmts, a.ret, a.ret)

\* astoid = Astoid(source_lines, ast_node, parent_astoid, clause, homeroom[, predecessor])
\* homeroom.append(astoid)
\* predecessor_astoid = astoid
\* for child_ast_node in <stmts>: ...
EmitClause(st, ast_node, parent_astoid, clause, homeroom, predecessor, stmts) ==
    AppendAndDescend(Astoid(st, ast_node, parent_astoid, clause, homeroom, predecessor),
                     homeroom, stmts)

\* A clause emitted when the state carries no exception and stmts is not
\* empty: if len(<stmts>) > 0: <EmitClause>.  The predecessor passed is the
\* current predecessor_astoid (st.ret) or Missing.
EmitIfAny(st, ast_node, parent_astoid, clause, homeroom, passes_predecessor, stmts) ==
    IF st.exc # "" \/ Len(stmts) = 0 THEN st
    ELSE EmitClause(st, ast_node, parent_astoid, clause, homeroom,
                    IF passes_predecessor THEN st.ret ELSE Missing, stmts)

\* for handler_ast_node in ast_node.handlers:
\*     if len(handler_ast_node.body) > 0: <clause EXCEPT, no predecessor passed>
\* st.ret is predecessor_astoid.
ParseHandlers(st, handlers, parent_astoid, homeroom) ==
    IF st.exc # "" \/ handlers = <<>> THEN st
    ELSE ParseHandlers(
            EmitIfAny(st, Head(handlers), parent_astoid, "EXCEPT", homeroom, FALSE,
                      Head(handlers).body),
            Tail(handlers), parent_astoid, homeroom)

\* The ast.If branch, lines 93-98: c is the state after the statements of the
\* alternate branch were parsed under the else placeholder astoid.
IfElseLink(c, astoid, homeroom) ==
    IF c.exc # "" THEN c
    ELSE IF Len(c.lists[c.astoids[astoid].children]) > 0
    THEN Return(ListAppend(IF c.astoids[astoid].predecessor = Ellipsis
                           THEN [c EXCEPT !.astoids[astoid].predecessor = c.ret,
                                          !.astoids[c.ret].successor = astoid]
                           ELSE c,
                           homeroom, astoid),
                c.ret)
    ELSE c

\* The ast.If branch, lines 87-89: e is the state the call of Astoid for the
\* else placeholder left; the placeholder is not appended to homeroom here.
IfElseChildren(e, ast_node, homeroom) ==
    IF e.exc # "" THEN e
    ELSE IfElseLink(ParseChildren(e, ast_node.orelse, e.ret, e.ret), e.ret, homeroom)

\* The ast.If branch, lines 85-98, with the parent_astoid and homeroom that
\* the primary branch left (the promoted ones after a promotion); s1.ret is
\* predecessor_astoid.
IfElse(s1, ast_node, parent_astoid, homeroom) ==
    IF s1.exc # "" \/ Len(ast_node.orelse) = 0 THEN s1
    ELSE IfElseChildren(Astoid(s1, ast_node, parent_astoid, "ELSE", homeroom, s1.ret),
                        ast_node, homeroom)

\* The ast.If branch, lines 77-84 of a promotion: a is the state the call of
\* Astoid for the ELIF clause left.
PromoteLink(a, ast_node, astoid_parent_else) ==
    IF a.exc # "" THEN a
    ELSE ParseChildren(
            ListAppend([a EXCEPT !.astoids[astoid_parent_else].predecessor = Ellipsis],
                       a.astoids[astoid_parent_else].homeroom, a.ret),
            ast_node.body, a.ret, a.ret)

\* The ast.If branch: lines 65-84, the primary branch, promoted when the line
\* of the node starts with 'elif', then the alternate branch.
ParseIf(st, ast_node, parent_astoid, homeroom, predecessor_astoid) ==
    IF Len(ast_node.body) = 0
    THEN IfElse(Return(st, predecessor_astoid), ast_node, parent_astoid, homeroom)
    ELSE IF ast_node.elif_line
    THEN \* assert(astoid_parent_else.type == (ast.If,CodeClause.ELSE))
         IF parent_astoid = NoneRef
         THEN Raise(st, "AttributeError: 'NoneType' object has no attribute 'type'")
         ELSE IF st.astoids[parent_astoid].type # <<"If", "ELSE">>
         THEN Raise(st, "AssertionError")
         ELSE IfElse(PromoteLink(Astoid(st, ast_node,
                                        st.astoids[parent_astoid].parent, "ELIF",
                                        st.astoids[parent_astoid].homeroom,
                                        st.astoids[parent_astoid].predecessor),
                                 ast_node, parent_astoid),
                     ast_node,
                     st.astoids[parent_astoid].parent,
                     st.astoids[parent_astoid].homeroom)
    ELSE IfElse(EmitClause(st, ast_node, parent_astoid, "BODY", homeroom,
                           predecessor_astoid, ast_node.body),
                ast_node, parent_astoid, homeroom)

\* The else branch of _parse, lines 128-130: a is the state the call of Astoid
\* left.
SimpleClause(a, homeroom) ==
    IF a.exc # "" THEN a ELSE Return(ListAppend(a, homeroom, a.ret), a.ret)

\* _parse after lines 36-40: the dispatch on the kind of ast_node; ret is the
\* predecessor_astoid returned.
ParseNode(st, ast_node, parent_astoid, homeroom, predecessor_astoid) ==
    IF ast_node.kind \in BodyOnlyKinds
    THEN EmitIfAny(Return(st, predecessor_astoid), ast_node, parent_astoid, "BODY",
                   homeroom, TRUE, ast_node.body)
    ELSE IF ast_node.kind \in LoopKinds
    THEN EmitIfAny(
            EmitIfAny(Return(st, predecessor_astoid), ast_node, parent_astoid, "BODY",
                      homeroom, FALSE, ast_node.body),
            ast_node, parent_astoid, "ELSE", homeroom, TRUE, ast_node.orelse)
    ELSE IF ast_node.kind = "If"
    THEN ParseIf(st, ast_node, parent_astoid, homeroom, predecessor_astoid)
    ELSE IF ast_node.kind = "Try"
    THEN EmitIfAny(
            EmitIfAny(
                ParseHandlers(
                    EmitIfAny(Return(st, predecessor_astoid), ast_node, parent_astoid,
                              "BODY", homeroom, TRUE, ast_node.body),
                    ast_node.handlers, parent_astoid, homeroom),
                ast_node, parent_astoid, "ELSE", homeroom, FALSE, ast_node.orelse),
            ast_node, parent_astoid, "FINALLY", homeroom, FALSE, ast_node.finalbody)
    ELSE SimpleClause(Astoid(st, ast_node, parent_astoid, NoClause, homeroom, Missing),
                      homeroom)

\* The homeroom _parse makes when it is given none: s0.ret is the new list.
ParseAtRoot(s0, ast_node, parent_astoid, predecessor_astoid) ==
    ParseNode(s0, ast_node, parent_astoid, s0.ret, predecessor_astoid)

\* _parse(source_lines, ast_node, parent_astoid, homeroom, predecessor_astoid);
\* ret is the predecessor_astoid it returns.
_parse(st, ast_node, parent_astoid, homeroom, predecessor_astoid) ==
    IF homeroom = NoneRef
    THEN ParseAtRoot(NewList(st), ast_node, parent_astoid, predecessor_astoid)
    ELSE ParseNode(st, ast_node, parent_astoid, homeroom, predecessor_astoid)

(***************************************************************************)
(* Values that are either a syntax-tree node or an Astoid.                 *)
(***************************************************************************)
AstObject == [kind |-> "ast", ref |-> NoneRef]
AstoidObject(ref) == [kind |-> "astoid", ref |-> ref]
NoObject == [kind |-> "None", ref |-> NoneRef]

\* iterate_with_siblings(iterable): the triples it yields, in order.  The
\* loop over items, then the statements after the loop.
RECURSIVE IterateLoop(_, _, _, _)
IterateLoop(items, prev_sibling, curr_sibling, out) ==
    IF items = <<>>
    THEN IF curr_sibling # NoneRef
         THEN Append(out, <<prev_sibling, curr_sibling, NoneRef>>)
         ELSE out
    ELSE IterateLoop(Tail(items), curr_sibling, Head(items),
                     IF curr_sibling # NoneRef
                     THEN Append(out, <<prev_sibling, curr_sibling, Head(items)>>)
                     ELSE out)

iterate_with_siblings(iterable) == IterateLoop(iterable, NoneRef, NoneRef, <<>>)

\* introduce_siblings(astoid).  A syntax-tree node has no attribute children.
RECURSIVE introduce_siblings(_, _)
RECURSIVE IntroduceLoop(_, _)

\* curr_sibling.prev_sibling = prev_sibling; curr_sibling.next_sibling = next_sibling
\* after the recursive call left s1.
IntroduceSet(s1, t, triples) ==
    IF s1.exc # "" THEN s1
    ELSE IntroduceLoop([s1 EXCEPT !.astoids[t[2]].prev_sibling = t[1],
                                  !.astoids[t[2]].next_sibling = t[3]],
                       triples)

IntroduceLoop(st, triples) ==
    IF st.exc # "" \/ triples = <<>> THEN st
    ELSE IntroduceSet(introduce_siblings(st, AstoidObject(Head(triples)[2])),
                      Head(triples), Tail(triples))

introduce_siblings(st, astoid) ==
    IF astoid.kind # "astoid"
    THEN Raise(st, "AttributeError: 'Module' object has no attribute 'children'")
    ELSE IntroduceLoop(st, iterate_with_siblings(st.lists[st.astoids[astoid.ref].children]))

\* determine_successor(astoid), lines 149-157: the value the walk up the
\* ancestors assigns.  'is not None' is true of the unset placeholder.
RECURSIVE AncestorNextSibling(_, _)
AncestorNextSibling(st, ancestor) ==
    IF ancestor = NoneRef THEN NoneRef
    ELSE IF st.astoids[ancestor].next_sibling # NoneRef
    THEN st.astoids[ancestor].next_sibling
    ELSE AncestorNextSibling(st, st.astoids[ancestor].parent)

\* Lines 143-157: the value assigned to astoid.successor.
DerivedSuccessor(s1, astoid) ==
    IF Len(s1.lists[s1.astoids[astoid].children]) > 0
    THEN s1.lists[s1.astoids[astoid].children][1]
    ELSE IF s1.astoids[astoid].next_sibling # NoneRef
    THEN s1.astoids[astoid].next_sibling
    ELSE AncestorNextSibling(s1, s1.astoids[astoid].parent)

\* s1 is the state the loop over the children left.
SetSuccessor(s1, astoid) ==
    IF s1.exc # "" THEN s1
    ELSE [s1 EXCEPT !.astoids[astoid].successor = DerivedSuccessor(s1, astoid)]

RECURSIVE determine_successor(_, _)
RECURSIVE SuccessorOfChildren(_, _)

\* for child in astoid.children: determine_successor(child)
SuccessorOfChildren(st, children) ==
    IF st.exc # "" \/ children = <<>> THEN st
    ELSE SuccessorOfChildren(determine_successor(st, Head(children)), Tail(children))

determine_successor(st, astoid) ==
    SetSuccessor(SuccessorOfChildren(st, st.lists[st.astoids[astoid].children]), astoid)

\* determine_predecessor(astoid), lines 162-164: target descends to the last
\* child while there are children; ret is target.  The unset placeholder has
\* no attribute children.
RECURSIVE DescendToLast(_, _)
DescendToLast(st, target) ==
    IF target = Ellipsis
    THEN Raise(st, "AttributeError: 'ellipsis' object has no attribute 'children'")
    ELSE IF Len(st.lists[st.astoids[target].children]) > 0
    THEN DescendToLast(st, st.lists[st.astoids[target].children]
                               [Len(st.lists[st.astoids[target].children])])
    ELSE Return(st, target)

\* Line 165: astoid.predecessor = target, where d.ret is target.
AssignPredecessor(d, astoid) ==
    IF d.exc # "" THEN d
    ELSE Return([d EXCEPT !.astoids[astoid].predecessor = d.ret], NoneRef)

\* Lines 161-170; s1 is the state the loop over the children left.
SetPredecessor(s1, astoid) ==
    IF s1.exc # "" THEN s1
    ELSE IF s1.astoids[astoid].prev_sibling # NoneRef
    THEN AssignPredecessor(DescendToLast(s1, s1.astoids[astoid].prev_sibling), astoid)
    ELSE [s1 EXCEPT !.astoids[astoid].predecessor = s1.astoids[astoid].parent]

RECURSIVE determine_predecessor(_, _)
RECURSIVE PredecessorOfChildren(_, _)

\* for child in astoid.children: determine_predecessor(child)
PredecessorOfChildren(st, children) ==
    IF st.exc # "" \/ children = <<>> THEN st
    ELSE PredecessorOfChildren(determine_predecessor(st, Head(children)), Tail(children))

determine_predecessor(st, astoid) ==
    SetPredecessor(PredecessorOfChildren(st, st.lists[st.astoids[astoid].children]), astoid)

\* astoid.parse, line 32: predecessor_astoid.successor = None, where s1.ret is
\* what _parse returned.
SetTail(s1) ==
    IF s1.exc # "" THEN s1
    ELSE IF s1.ret = NoneRef
    THEN Raise(s1, "AttributeError: 'NoneType' object has no attribute 'successor'")
    ELSE [s1 EXCEPT !.astoids[s1.ret].successor = NoneRef]

\* astoid.parse, lines 33-34: introduce_siblings(ast_node); return ast_node.
IntroduceAndReturn(s2) ==
    IF s2.exc # "" THEN s2 ELSE introduce_siblings(s2, AstObject)

ReturnValue(s3) ==
    [st |-> s3, value |-> IF s3.exc # "" THEN NoObject ELSE AstObject]

\* astoid.parse(source), given ast_node = ast.parse(source): the interpreter
\* state it leaves and the value it returns.
ParseFrom(st, ast_node) ==
    ReturnValue(IntroduceAndReturn(SetTail(
        _parse(st, ast_node, NoneRef, NoneRef, NoneRef))))

parse(ast_node) == ParseFrom(EmptyHeap, ast_node)

\* The interpreter state in which a caller that has handled the outcome of
\* one call makes the next call: the objects of the first call still exist.
AfterCall(st) == [st EXCEPT !.exc = "", !.ret = NoneRef]

(***************************************************************************)
(* The Block Grouper: cnode.py.  A clause of the iterator is known to the  *)
(* loop by its attribute type, the pair (syntax kind, clause tag).         *)
(***************************************************************************)
\* The pairs the Clause Builder's dispatch table can give an Astoid.
ClauseTypes ==
    { <<k, "BODY">> : k \in {"Module", "FunctionDef", "ClassDef", "With", "For", "If", "Try"} }
    \cup { <<"If", "ELIF">>, <<"If", "ELSE">>, <<"For", "ELSE">>, <<"Try", "ELSE">>,
           <<"ExceptHandler", "EXCEPT">>, <<"Try", "FINALLY">>, <<"Expr", NoClause>> }

RECURSIVE SeqsUpTo(_, _)
SeqsUpTo(S, n) ==
    IF n = 0 THEN {<<>>}
    ELSE LET shorter == SeqsUpTo(S, n - 1)
         IN shorter \cup { Append(q, x) : q \in { r \in shorter : Len(r) = n - 1 }, x \in S }

\* ast_type_map: the syntax kinds that have a Cnode class, and the class.
ast_type_map ==
    [k \in {"Module", "ClassDef", "FunctionDef", "AsyncFunctionDef"} |->
        CASE k = "Module" -> "CnodeModule"
          [] k = "ClassDef" -> "CnodeClass"
          [] k = "FunctionDef" -> "CnodeFunction"
          [] k = "AsyncFunctionDef" -> "CnodeAsyncFunction"]

\* class ParseState(Enum); NoState is the None a method without return gives.
ParseState == {"NEWBLOCK", "BUILD", "ENDBLOCK", "DONE"}
NoState == "None"

\* The locals of cnode.parse when the loop is entered (lines 58-65), over an
\* iterator that has consumed nothing; cnodes are the Cnode objects.  popped
\* records the Block Nodes that stack.pop() has returned so far, presented the
\* values of astoid with which add_astoid was called, in the order of the
\* calls.
GrouperStart(parent_cnode) ==
    [cnodes |-> <<>>, stack |-> <<>>, cnode |-> NoneRef, parent_cnode |-> parent_cnode,
     state |-> "NEWBLOCK", astoid |-> NoneRef, consumed |-> 0, get_next |-> TRUE,
     exc |-> "", returned |-> FALSE, ret |-> NoneRef, popped |-> {}, presented |-> <<>>]

\* Cnode.__init__ without the assignment self.parent = parent.
CnodeWithoutParent(g, cls, parent) ==
    [g EXCEPT !.cnodes = Append(@, [cls |-> cls, parent |-> NoneRef, astoids |-> <<>>]),
              !.ret = Len(g.cnodes) + 1]

\* Cnode.__init__(parent), for the class cls; ret is the new object.
Cnode(g, cls, parent) ==
    [g EXCEPT !.cnodes = Append(@, [cls |-> cls, parent |-> parent, astoids |-> <<>>]),
              !.ret = Len(g.cnodes) + 1]

\* Reading astoid.type when astoid is None.
NoneHasNoType == "AttributeError: 'NoneType' object has no attribute 'type'"

\* Cnode.process_astoid, and its override in CnodeModule.  next is the value
\* returned.
process_astoid(g, self, astoid, parse_state) ==
    IF g.cnodes[self].cls = "CnodeModule"
    THEN IF Len(g.cnodes[self].astoids) = 0 /\ astoid = NoneRef
         THEN [g |-> Raise(g, NoneHasNoType), next |-> NoState]
         ELSE IF Len(g.cnodes[self].astoids) = 0 /\ clauses[astoid] = <<"Module", "BODY">>
         THEN [g |-> [g EXCEPT !.cnodes[self].astoids = Append(@, astoid)],
               next |-> "NEWBLOCK"]
         ELSE [g |-> Raise(g, "Exception: Only a single module body astoid should be added a CnodeModule"),
               next |-> NoState]
    ELSE [g |-> Raise(g, "NotImplementedError: This method is intended to be overwritten by subclasses"),
          next |-> NoState]

\* Cnode.add_astoid, and its override in CnodeBlock.  Cnode.add_astoid calls
\* self.init(self,astoid), one positional argument more than init takes, and
\* has no return statement.
add_astoid(g, self, astoid, parse_state) ==
    IF g.cnodes[self].cls = "CnodeBlock"
    THEN IF Len(g.cnodes[self].astoids) = 0 /\ astoid = NoneRef
         THEN [g |-> Raise(g, NoneHasNoType), next |-> NoState]
         ELSE IF Len(g.cnodes[self].astoids) = 0 /\ clauses[astoid] = <<"Module", "BODY">>
         THEN [g |-> [g EXCEPT !.cnodes[self].astoids = Append(@, astoid)],
               next |-> "BUILD"]
         ELSE [g |-> Raise(g, "Exception: Only a single module body astoid should be added a CnodeModule"),
               next |-> NoState]
    ELSE LET initialization == Len(g.cnodes[self].astoids) = 0
             p == process_astoid(g, self, astoid, parse_state)
         IN  IF p.g.exc # "" THEN p
             ELSE IF initialization
             THEN [g |-> Raise(p.g, "TypeError: init() takes 2 positional arguments but 3 were given"),
                   next |-> NoState]
             ELSE [g |-> p.g, next |-> NoState]

\* Lines 67-73 without the test of get_next: a clause is fetched in every
\* iteration.
FetchAlways(g) ==
    LET g1 == IF g.consumed < Len(clauses)
              THEN [g EXCEPT !.astoid = g.consumed + 1, !.consumed = g.consumed + 1]
              ELSE [g EXCEPT !.astoid = NoneRef]
    IN [g1 EXCEPT !.get_next = TRUE]

\* Lines 67-73: fetch the next clause when get_next is set.  On StopIteration
\* the code evaluates the comparison state == ParseState.DONE and drops it.
Fetch(g) ==
    LET g1 == IF ~g.get_next THEN g
              ELSE IF g.consumed < Len(clauses)
              THEN [g EXCEPT !.astoid = g.consumed + 1, !.consumed = g.consumed + 1]
              ELSE [g EXCEPT !.astoid = NoneRef]
    IN [g1 EXCEPT !.get_next = TRUE]

\* Lines 74-94: the dispatch on state; next is next_state.
Dispatch(g) ==
    IF g.state = "NEWBLOCK"
    THEN IF g.astoid = NoneRef
         THEN [g |-> Raise(g, NoneHasNoType), next |-> NoState]
         ELSE LET ast_type == clauses[g.astoid][1]
                  clause == clauses[g.astoid][2]
              IN  IF clause = NoClause
                  THEN LET c == Cnode(g, "CnodeBlock", g.parent_cnode)
                           a == add_astoid([c EXCEPT !.cnode = c.ret,
                                                   !.presented = Append(@, g.astoid)],
                                         c.ret, g.astoid, g.state)
                       IN a
                  ELSE IF ast_type \in DOMAIN ast_type_map
                  THEN LET c == Cnode(g, ast_type_map[ast_type], g.parent_cnode)
                           a == add_astoid([c EXCEPT !.cnode = c.ret,
                                                   !.presented = Append(@, g.astoid)],
                                         c.ret, g.astoid, g.state)
                       IN a
                  ELSE [g |-> Raise(g, "Exception: Unexpected type"), next |-> NoState]
    ELSE IF g.state = "BUILD"
    THEN IF g.cnode = NoneRef
         THEN [g |-> Raise(g, "AttributeError: 'NoneType' object has no attribute 'add_astoid'"),
               next |-> NoState]
         ELSE add_astoid([g EXCEPT !.presented = Append(@, g.astoid)],
                         g.cnode, g.astoid, g.state)
    ELSE IF g.state = "DONE"
    THEN [g |-> g, next |-> "DONE"]
    ELSE [g |-> Raise(g, "Exception: Invalid state"), next |-> NoState]

\* Lines 96-114 without the assignment next_state = ParseState.BUILD of line
\* 105: the request ENDBLOCK is stored as the state.
TransitionStoresEndBlock(g, next_state) ==
    IF next_state = "NEWBLOCK"
    THEN [g EXCEPT !.stack = Append(@, g.cnode), !.parent_cnode = g.cnode,
                   !.cnode = NoneRef, !.state = next_state]
    ELSE IF next_state = "ENDBLOCK"
    THEN IF Len(g.stack) > 0
         THEN LET top == g.stack[Len(g.stack)]
              IN [g EXCEPT !.get_next = FALSE,
                           !.cnode = top,
                           !.stack = SubSeq(@, 1, Len(@) - 1),
                           !.parent_cnode = g.cnodes[top].parent,
                           !.popped = @ \cup {top},
                           !.state = "ENDBLOCK"]
         ELSE [g EXCEPT !.state = "DONE"]
    ELSE IF next_state \in {"BUILD", "DONE"}
    THEN [g EXCEPT !.state = next_state]
    ELSE Raise(g, "Exception: Invalid state transition")

\* Lines 96-114 without the assignment get_next = False of line 102.
TransitionFetchesAfterPop(g, next_state) ==
    IF next_state = "NEWBLOCK"
    THEN [g EXCEPT !.stack = Append(@, g.cnode), !.parent_cnode = g.cnode,
                   !.cnode = NoneRef, !.state = next_state]
    ELSE IF next_state = "ENDBLOCK"
    THEN IF Len(g.stack) > 0
         THEN LET top == g.stack[Len(g.stack)]
              IN [g EXCEPT !.cnode = top,
                           !.stack = SubSeq(@, 1, Len(@) - 1),
                           !.parent_cnode = g.cnodes[top].parent,
                           !.popped = @ \cup {top},
                           !.state = "BUILD"]
         ELSE [g EXCEPT !.state = "DONE"]
    ELSE IF next_state \in {"BUILD", "DONE"}
    THEN [g EXCEPT !.state = next_state]
    ELSE Raise(g, "Exception: Invalid state transition")

\* Lines 96-114: act on next_state and store it.
Transition(g, next_state) ==
    IF next_state = "NEWBLOCK"
    THEN [g EXCEPT !.stack = Append(@, g.cnode), !.parent_cnode = g.cnode,
                   !.cnode = NoneRef, !.state = next_state]
    ELSE IF next_state = "ENDBLOCK"
    THEN IF Len(g.stack) > 0
         THEN LET top == g.stack[Len(g.stack)]
              IN [g EXCEPT !.get_next = FALSE,
                           !.cnode = top,
                           !.stack = SubSeq(@, 1, Len(@) - 1),
                           !.parent_cnode = g.cnodes[top].parent,
                           !.popped = @ \cup {top},
                           !.state = "BUILD"]
         ELSE [g EXCEPT !.state = "DONE"]
    ELSE IF next_state \in {"BUILD", "DONE"}
    THEN [g EXCEPT !.state = next_state]
    ELSE Raise(g, "Exception: Invalid state transition")

\* One iteration of while state != ParseState.DONE, and the return cnode that
\* follows the loop when the iteration ends in DONE.
LoopExit(t) ==
    IF t.exc = "" /\ t.state = "DONE"
    THEN [t EXCEPT !.returned = TRUE, !.ret = t.cnode]
    ELSE t

LoopBody(g) ==
    LET d == Dispatch(Fetch(g))
    IN  LoopExit(IF d.g.exc # "" THEN d.g ELSE Transition(d.g, d.next))

(***************************************************************************)
(* code_tree (codetree.py).  The directories it looks at are the chain     *)
(* from the filesystem root (level 0, which holds no __init__.py) down to  *)
(* the folder that holds the target file (level Len(dirs)); dirs[l] says   *)
(* whether the directory of level l holds a file __init__.py.  A path is   *)
(* the level of its directory.  The target is one of                       *)
(*   "package_name"  an importable name whose origin is the __init__.py of *)
(*                   the last directory,                                   *)
(*   "module_name"   an importable name whose origin is a module file of   *)
(*                   the last directory,                                   *)
(*   "init_path", "module_path"  the path of such a file, as a string,     *)
(*   "missing"       neither an importable name nor a path that exists.    *)
(***************************************************************************)
NoPath == -1

NoCodeTree ==
    [dirs |-> <<>>, target |-> "None", called |-> FALSE, exc |-> "",
     package_path |-> NoPath, ret |-> [cls |-> "None", source_path |-> NoPath]]

TargetKinds == {"package_name", "module_name", "init_path", "module_path", "missing"}

\* importlib.util.find_spec(target): the origin of an importable name; None
\* for a name that is not importable; for a name with a dot in it (a file
\* path ending in .py) it imports the part before the last dot and raises.
find_spec(target) ==
    IF target \in {"init_path", "module_path"}
    THEN [exc |-> "ModuleNotFoundError: No module named", origin |-> "None"]
    ELSE IF target = "package_name" THEN [exc |-> "", origin |-> "__init__.py"]
    ELSE IF target = "module_name" THEN [exc |-> "", origin |-> "module.py"]
    ELSE [exc |-> "", origin |-> "None"]

\* '__init__.py' in [filename.lower() for filename in os.listdir(containing_folder)]
HasInit(dirs, containing_folder) ==
    containing_folder >= 1 /\ dirs[containing_folder]

\* while '__init__.py' in ...: containing_folder = os.path.abspath(os.path.join(containing_folder,'..'))
RECURSIVE ClimbWhileInit(_, _)
ClimbWhileInit(dirs, containing_folder) ==
    IF HasInit(dirs, containing_folder)
    THEN ClimbWhileInit(dirs, containing_folder - 1)
    ELSE containing_folder

\* PackageNode(source_path): __init__ runs to self.test = TestInterface(self),
\* and TestInterface has no __init__ that takes an argument.
PackageNode(c, source_path) ==
    [c EXCEPT !.package_path = source_path,
              !.exc = "TypeError: TestInterface() takes no arguments"]

\* ModuleNode(source_path): the second statement of __init__ reads the name
\* origin, which is defined nowhere.
ModuleNode(c, source_path) ==
    [c EXCEPT !.exc = "NameError: name 'origin' is not defined"]

\* len(os.path.dirname(target_path)) for a file in the directory of the level:
\* '/' for the filesystem root, '/d1/.../dl' below it.
DirnameLength(level) == IF level = 0 THEN 1 ELSE 2 * level

\* Lines 82-91: the target file is not an __init__.py.  The assignment
\* "containing_folder, = os.path.dirname(target_path)" unpacks a string and
\* needs it to be one character long.
CodeTreeOfModule(c) ==
    IF DirnameLength(Len(c.dirs)) # 1
    THEN [c EXCEPT !.exc = "ValueError: too many values to unpack (expected 1)"]
    ELSE IF HasInit(c.dirs, Len(c.dirs))
    THEN PackageNode(c, ClimbWhileInit(c.dirs, Len(c.dirs)))
    ELSE ModuleNode(c, Len(c.dirs))

\* Lines 75-80: the target file is an __init__.py.
CodeTreeOfInit(c) == PackageNode(c, ClimbWhileInit(c.dirs, Len(c.dirs)))

\* Lines 65-74 gave spec; then the test of line 75.
CodeTreeOfSpec(c, spec) ==
    IF spec.exc # "" THEN [c EXCEPT !.exc = spec.exc]
    ELSE IF spec.origin = "None"
    THEN [c EXCEPT !.exc = "Exception: Target could not be identified as an importable name nor a path"]
    ELSE IF spec.origin = "__init__.py" THEN CodeTreeOfInit(c)
    ELSE CodeTreeOfModule(c)

\* code_tree(target), on the directories c.dirs.
code_tree(c) == CodeTreeOfSpec([c EXCEPT !.called = TRUE], find_spec(c.target))

RECURSIVE BoolSeqs(_)
BoolSeqs(n) ==
    IF n = 0 THEN {<<>>}
    ELSE BoolSeqs(n - 1)
         \cup { Append(q, b) : q \in { r \in BoolSeqs(n - 1) : Len(r) = n - 1 },
                                b \in BOOLEAN }

(***************************************************************************)
(* The generators of walk(): Astoid.walk (astoid.py), CodeNode.walk and    *)
(* DefNode.walk (codetree.py).  A generator is a stack of frames, one per  *)
(* call of walk() that has started and not returned; pos is the place of   *)
(* the frame in its method.                                                *)
(*   Astoid.walk, CodeNode.walk:  pos 0 is before "yield self"; pos j >= 1 *)
(*     is before "yield from child.walk()" of the j-th child.              *)
(*   DefNode.walk:  pos 2j-1 is before "yield child" of the j-th value of  *)
(*     subtree, pos 2j before its "yield from child.walk()".               *)
(***************************************************************************)
NoWalker ==
    [kind |-> "None", root |-> NoneRef, frames |-> <<>>, yielded |-> <<>>,
     exhausted |-> FALSE, runs |-> 0,
     previous |-> [kind |-> "None", root |-> NoneRef, yielded |-> <<>>]]

\* The class whose walk a node has: Astoid, CodeNode (and its subclasses that
\* do not override walk) or DefNode.
ClassOf(kind, node) == IF kind = "astoid" THEN "Astoid" ELSE codenodes[node].cls

\* self.children, or list(self.subtree.values()) of a DefNode.
WalkChildren(kind, node) ==
    IF kind = "astoid" THEN heap.lists[heap.astoids[node].children]
    ELSE codenodes[node].children

\* Astoid.walk without its first statement, yield self.
AstoidWalkSkipsSelf(self) == [node |-> self, pos |-> 1]

\* The frame of a call node.walk() that has not run yet.
AstoidWalkFrame(self) == [node |-> self, pos |-> 0]
CodeNodeWalkFrame(self) == [node |-> self, pos |-> 0]
DefNodeWalkFrame(self) == [node |-> self, pos |-> 1]

WalkFrame(kind, node) ==
    IF ClassOf(kind, node) = "Astoid" THEN AstoidWalkFrame(node)
    ELSE IF ClassOf(kind, node) = "DefNode" THEN DefNodeWalkFrame(node)
    ELSE CodeNodeWalkFrame(node)

\* frames with the pos of its top frame advanced by one.
Advance(frames) == [frames EXCEPT ![Len(frames)].pos = @ + 1]
Pop(frames) == SubSeq(frames, 1, Len(frames) - 1)

\* next(generator): run the top frame to its next yield.  out is the value
\* yielded, or None when the outermost frame returned (StopIteration).
RECURSIVE Resume(_, _)

\* The top frame top is in Astoid.walk or CodeNode.walk; ch is self.children.
ResumeWalk(kind, frames, top, ch) ==
    IF top.pos = 0 THEN [frames |-> Advance(frames), out |-> top.node]
    ELSE IF top.pos <= Len(ch)
    THEN Resume(kind, Append(Advance(frames), WalkFrame(kind, ch[top.pos])))
    ELSE Resume(kind, Pop(frames))

\* The top frame top is in DefNode.walk; ch is the values of self.subtree.
ResumeDefWalk(kind, frames, top, ch) ==
    IF top.pos > 2 * Len(ch) THEN Resume(kind, Pop(frames))
    ELSE IF top.pos % 2 = 1
    THEN [frames |-> Advance(frames), out |-> ch[(top.pos + 1) \div 2]]
    ELSE Resume(kind, Append(Advance(frames), WalkFrame(kind, ch[top.pos \div 2])))

ResumeTop(kind, frames, top) ==
    IF ClassOf(kind, top.node) = "DefNode"
    THEN ResumeDefWalk(kind, frames, top, WalkChildren(kind, top.node))
    ELSE ResumeWalk(kind, frames, top, WalkChildren(kind, top.node))

Resume(kind, frames) ==
    IF frames = <<>> THEN [frames |-> <<>>, out |-> NoneRef]
    ELSE ResumeTop(kind, frames, frames[Len(frames)])

\* The generator after one next(): r is what Resume gave.
AfterNext(w, r) ==
    IF r.out = NoneRef
    THEN [w EXCEPT !.frames = <<>>, !.exhausted = TRUE]
    ELSE [w EXCEPT !.frames = r.frames, !.yielded = Append(@, r.out)]

\* A new generator node.walk(); the one before it is remembered when it was
\* run to its end.
NewWalker(w, kind, node) ==
    [kind |-> kind, root |-> node, frames |-> <<WalkFrame(kind, node)>>,
     yielded |-> <<>>, exhausted |-> FALSE, runs |-> w.runs + 1,
     previous |-> IF w.exhausted
                  THEN [kind |-> w.kind, root |-> w.root, yielded |-> w.yielded]
                  ELSE w.previous]

(***************************************************************************)
(* Trees handed to walk().  A tree of n nodes is a parent vector: node 1   *)
(* is the root and the parent of node j > 1 is a node before it.  The      *)
(* children of a node are listed in the order of their numbers, or in the  *)
(* reverse order.                                                          *)
(***************************************************************************)
ParentVectors(n) ==
    { p \in [1..n -> 0..(n - 1)] : p[1] = 0 /\ \A j \in 2..n : p[j] >= 1 /\ p[j] < j }

Reverse(q) == [k \in 1..Len(q) |-> q[Len(q) + 1 - k]]

KidsOf(p, i, reversed) ==
    IF reversed
    THEN Reverse(SelectSeq([j \in 1..Len(p) |-> j], LAMBDA j : p[j] = i))
    ELSE SelectSeq([j \in 1..Len(p) |-> j], LAMBDA j : p[j] = i)

\* The Astoid objects of the tree p with the attributes Astoid.__init__ sets
\* (lines 175-185): list 1 is the homeroom of the root, list i + 1 the
\* children of node i.
AstoidTree(p, reversed) ==
    [astoids |-> [i \in 1..Len(p) |->
                    [ast_node |-> IF i = 1 THEN Node("Module", <<Simple>>, <<>>, <<>>, <<>>, FALSE)
                                  ELSE Simple,
                     clause |-> IF i = 1 THEN "BODY" ELSE NoClause,
                     type |-> <<>>,
                     parent |-> p[i],
                     homeroom |-> p[i] + 1,
                     children |-> i + 1,
                     prev_sibling |-> Ellipsis,
                     next_sibling |-> Ellipsis,
                     successor |-> Ellipsis,
                     predecessor |-> Ellipsis]],
     lists |-> [l \in 1..(Len(p) + 1) |->
                    IF l = 1 THEN <<1>> ELSE KidsOf(p, l - 1, reversed)],
     exc |-> "", ret |-> NoneRef]

\* The code nodes of the tree p: cls[i] is the class of node i, children the
\* list self.children, or the values of self.subtree of a DefNode.
CodeNodeTree(p, cls, reversed) ==
    [i \in 1..Len(p) |-> [cls |-> cls[i], children |-> KidsOf(p, i, reversed)]]

InitWalk ==
    /\ source = Node("Module", <<>>, <<>>, <<>>, <<>>, FALSE)
    /\ pc = "walk"
    /\ result = NoObject
    /\ clauses = <<>>
    /\ grouper = GrouperStart(NoneRef)
    /\ walker = NoWalker
    /\ codetree = NoCodeTree
    /\ \E n \in 1..MaxTree : \E p \in ParentVectors(n) : \E reversed \in BOOLEAN :
          \E cls \in [1..n -> {"CodeNode", "DefNode"}] :
            /\ heap = AstoidTree(p, reversed)
            /\ codenodes = CodeNodeTree(p, cls, reversed)

\* astoid.walk() for some clause node astoid.
AstoidWalk ==
    /\ pc = "walk"
    /\ walker.runs < MaxRuns
    /\ \E astoid \in 1..Len(heap.astoids) : walker' = NewWalker(walker, "astoid", astoid)
    /\ UNCHANGED <<source, pc, heap, result, clauses, grouper, codenodes, codetree>>

\* node.walk() for some code node.
CodeNodeWalk ==
    /\ pc = "walk"
    /\ walker.runs < MaxRuns
    /\ \E node \in 1..Len(codenodes) : walker' = NewWalker(walker, "code", node)
    /\ UNCHANGED <<source, pc, heap, result, clauses, grouper, codenodes, codetree>>

\* next() on the generator.
WalkNext ==
    /\ pc = "walk"
    /\ walker.kind # "None"
    /\ ~walker.exhausted
    /\ walker' = AfterNext(walker, Resume(walker.kind, walker.frames))
    /\ UNCHANGED <<source, pc, heap, result, clauses, grouper, codenodes, codetree>>

NextWalk == AstoidWalk \/ CodeNodeWalk \/ WalkNext

SpecWalk == InitWalk /\ [][NextWalk]_vars

\* The helpers of lines 134-170 applied to the root of a tree of Astoid
\* objects, in the order introduce_siblings, determine_successor,
\* determine_predecessor.
InitLinks ==
    /\ source = Node("Module", <<>>, <<>>, <<>>, <<>>, FALSE)
    /\ pc = "tree"
    /\ result = NoObject
    /\ clauses = <<>>
    /\ grouper = GrouperStart(NoneRef)
    /\ codenodes = <<>>
    /\ walker = NoWalker
    /\ codetree = NoCodeTree
    /\ \E n \in 1..MaxLinked : \E p \in ParentVectors(n) : \E reversed \in BOOLEAN :
          heap = AstoidTree(p, reversed)

\* introduce_siblings(root)
IntroduceSiblings ==
    /\ pc = "tree"
    /\ heap' = introduce_siblings(heap, AstoidObject(1))
    /\ pc' = "siblings"
    /\ UNCHANGED <<source, result, clauses, grouper, codenodes, walker, codetree>>

\* determine_successor(root)
DetermineSuccessor ==
    /\ pc = "siblings"
    /\ heap.exc = ""
    /\ heap' = determine_successor(heap, 1)
    /\ pc' = "successors"
    /\ UNCHANGED <<source, result, clauses, grouper, codenodes, walker, codetree>>

\* determine_predecessor(root)
DeterminePredecessor ==
    /\ pc = "successors"
    /\ heap.exc = ""
    /\ heap' = determine_predecessor(heap, 1)
    /\ pc' = "linked"
    /\ UNCHANGED <<source, result, clauses, grouper, codenodes, walker, codetree>>

NextLinks == IntroduceSiblings \/ DetermineSuccessor \/ DeterminePredecessor

SpecLinks == InitLinks /\ [][NextLinks]_vars

\* code_tree applied to a target in a chain of directories.
InitCodeTree ==
    /\ source = Node("Module", <<>>, <<>>, <<>>, <<>>, FALSE)
    /\ pc = "code_tree"
    /\ heap = EmptyHeap
    /\ result = NoObject
    /\ clauses = <<>>
    /\ grouper = GrouperStart(NoneRef)
    /\ codenodes = <<>>
    /\ walker = NoWalker
    /\ \E dirs \in BoolSeqs(MaxDirs) : \E target \in TargetKinds :
          /\ target \in {"package_name", "init_path"} => HasInit(dirs, Len(dirs))
          /\ codetree = [NoCodeTree EXCEPT !.dirs = dirs, !.target = target]

CodeTree ==
    /\ pc = "code_tree"
    /\ ~codetree.called
    /\ codetree' = code_tree(codetree)
    /\ UNCHANGED <<source, pc, heap, result, clauses, grouper, codenodes, walker>>

NextCodeTree == CodeTree

SpecCodeTree == InitCodeTree /\ [][NextCodeTree]_vars

(***************************************************************************)
(* ModuleNode.__init__, lines 263-275 of codetree.py: the loop that builds *)
(* self.children from the statements of the module, taken on its own over *)
(* the statement lists ast.parse can give.  The code nodes are codenodes:  *)
(* node 1 is the ModuleNode, the others its children in creation order.    *)
(***************************************************************************)
\* ast_type_map of codetree.py: the class it gives a statement kind.
CodeTypeMap ==
    [k \in {"Module", "ClassDef", "FunctionDef", "AsyncFunctionDef", "For", "AsyncFor",
             "While", "If", "With", "AsyncWith", "Try"} |->
        IF k = "Module" THEN "ModuleNode"
        ELSE IF k \in {"ClassDef", "FunctionDef", "AsyncFunctionDef"} THEN "DefNode"
        ELSE "BlockNode"]

\* child_class(self,ast_child,child_code_type): the exception the call ends
\* with.  DefNode.__init__ reads the undefined name 'name' in its second
\* statement; BlockNode has no __init__ and CodeNode has none either.
NewChildNode(child_class) ==
    IF child_class = "DefNode" THEN "NameError: name 'name' is not defined"
    ELSE IF child_class = "BlockNode" THEN "TypeError: BlockNode() takes no arguments"
    ELSE "NameError: name 'origin' is not defined"

\* The name LineblockNode of line 272; the class is called LineBlockNode.
LineblockNodeName == "NameError: name 'LineblockNode' is not defined"

\* for ast_child in ast_body: ... ; c is the state with the code nodes made so
\* far and the exception, if any.
RECURSIVE ChildrenLoop(_, _, _)
ChildrenLoop(c, ast_body, last_child_lineblock) ==
    IF c.exc # "" \/ ast_body = <<>> THEN c
    ELSE IF Head(ast_body).kind \in DOMAIN CodeTypeMap
    THEN ChildrenLoop([c EXCEPT !.exc = NewChildNode(CodeTypeMap[Head(ast_body).kind])],
                      Tail(ast_body), FALSE)
    ELSE IF ~last_child_lineblock
    THEN ChildrenLoop([c EXCEPT !.exc = LineblockNodeName], Tail(ast_body), TRUE)
    ELSE ChildrenLoop(c, Tail(ast_body), TRUE)

\* Lines 257 and 263-273: self.children = [] and the loop.
ModuleChildren(ast_body) ==
    ChildrenLoop([nodes |-> <<[cls |-> "ModuleNode", children |-> <<>>]>>, exc |-> ""],
                 ast_body, FALSE)

InitModuleNode ==
    /\ source \in Sources
    /\ pc = "children"
    /\ heap = EmptyHeap
    /\ result = NoObject
    /\ clauses = <<>>
    /\ grouper = GrouperStart(NoneRef)
    /\ codenodes = <<>>
    /\ walker = NoWalker
    /\ codetree = NoCodeTree

BuildChildren ==
    /\ pc = "children"
    /\ codenodes' = ModuleChildren(source.body).nodes
    /\ codetree' = [codetree EXCEPT !.called = TRUE,
                                    !.exc = ModuleChildren(source.body).exc]
    /\ pc' = "built"
    /\ UNCHANGED <<source, heap, result, clauses, grouper, walker>>

NextModuleNode == BuildChildren

SpecModuleNode == InitModuleNode /\ [][NextModuleNode]_vars

Init ==
    /\ source \in Sources
    /\ pc = "start"
    /\ heap = EmptyHeap
    /\ result = NoObject
    /\ clauses = <<>>
    /\ grouper = GrouperStart(NoneRef)
    /\ codenodes = <<>>
    /\ walker = NoWalker
    /\ codetree = NoCodeTree

\* The caller runs astoid.parse(source) to its return or to the exception.
Parse ==
    /\ pc = "start"
    /\ heap' = parse(source).st
    /\ result' = parse(source).value
    /\ pc' = "done"
    /\ UNCHANGED <<source, clauses, grouper, codenodes, walker, codetree>>

\* The caller imports cnode and runs cnode.parse(source).  Compiling cnode.py
\* stops at line 132 (an assignment without a right-hand side), so the import
\* raises and no statement of cnode.parse runs.
CnodeParse ==
    /\ pc = "start"
    /\ heap' = Raise(EmptyHeap, "SyntaxError: invalid syntax (cnode.py, line 132)")
    /\ pc' = "grouped"
    /\ UNCHANGED <<source, result, clauses, grouper, codenodes, walker, codetree>>

\* The caller runs astoid.parse(source) a second time on the same source.
ParseAgain ==
    /\ pc = "done"
    /\ heap' = ParseFrom(AfterCall(heap), source).st
    /\ result' = ParseFrom(AfterCall(heap), source).value
    /\ pc' = "again"
    /\ UNCHANGED <<source, clauses, grouper, codenodes, walker, codetree>>

Next == Parse \/ CnodeParse \/ ParseAgain

Spec == Init /\ [][Next]_vars

(***************************************************************************)
(* The loop of cnode.parse taken on its own: lines 66-115 as they read,    *)
(* entered in the state lines 58-65 set up, over every clause order of at  *)
(* most MaxClauses clauses, with parent_cnode = None.  The iterator is the  *)
(* walk of the root clause: it yields the clause of the module first, then *)
(* the clauses below it.                                                   *)
(***************************************************************************)
ClauseOrders ==
    { <<(<<"Module", "BODY">>)>> \o q :
        q \in SeqsUpTo(ClauseTypes \ {<<"Module", "BODY">>}, MaxClauses - 1) }

InitGrouper ==
    /\ source = Node("Module", <<>>, <<>>, <<>>, <<>>, FALSE)
    /\ pc = "loop"
    /\ heap = EmptyHeap
    /\ result = NoObject
    /\ clauses \in ClauseOrders
    /\ grouper = GrouperStart(NoneRef)
    /\ codenodes = <<>>
    /\ walker = NoWalker
    /\ codetree = NoCodeTree

Iterate ==
    /\ pc = "loop"
    /\ grouper.exc = ""
    /\ ~grouper.returned
    /\ grouper.state # "DONE"
    /\ grouper' = LoopBody(grouper)
    /\ UNCHANGED <<source, pc, heap, result, clauses, codenodes, walker, codetree>>

NextGrouper == Iterate

SpecGrouper == InitGrouper /\ [][NextGrouper]_vars

(***************************************************************************)
(* The two halves of one iteration of the loop of cnode.parse as functions *)
(* of the loop's local variables: the dispatch on state (lines 74-94) and  *)
(* the dispatch on next_state (lines 96-114), applied to drawn values of   *)
(* the locals.  pc is "dispatch" before the first half and holds the value *)
(* of next_state between the halves, and "transitioned" after the second,  *)
(* from where the next iteration starts.                                   *)
(***************************************************************************)
\* d Block Nodes, each the parent of the next: the Block Node of the module,
\* which took the module's clause, then Block Nodes of functions, the last
\* one (when d > 1) a CnodeBlock that took no clause yet.
BlockChain(d) ==
    [i \in 1..d |->
        [cls |-> IF i = 1 THEN "CnodeModule"
                 ELSE IF i = d THEN "CnodeBlock" ELSE "CnodeFunction",
         parent |-> i - 1,
         astoids |-> IF i = 1 THEN <<1>> ELSE <<>>]]

\* The locals at the top of the dispatch, clause k being the current one.
\* In NEWBLOCK every Block Node is on the stack and cnode is None (lines
\* 97-99); in BUILD the last Block Node is cnode and the stack holds the
\* others, or nothing.
LoopLocals(d, st, k, stacked) ==
    [GrouperStart(NoneRef) EXCEPT
        !.cnodes = BlockChain(d),
        !.stack = IF st = "NEWBLOCK" THEN [i \in 1..d |-> i]
                  ELSE IF stacked THEN [i \in 1..(d - 1) |-> i] ELSE <<>>,
        !.cnode = IF st = "NEWBLOCK" THEN NoneRef ELSE d,
        !.parent_cnode = IF st = "NEWBLOCK" THEN d ELSE d - 1,
        !.state = st,
        !.astoid = k,
        !.consumed = k]

InitStep ==
    /\ source = Node("Module", <<>>, <<>>, <<>>, <<>>, FALSE)
    /\ pc \in {"dispatch"} \cup ParseState \cup {NoState}
    /\ heap = EmptyHeap
    /\ result = NoObject
    /\ clauses \in ClauseOrders
    /\ grouper \in { LoopLocals(d, st, k, stacked) :
                        d \in 1..MaxDepth, st \in {"NEWBLOCK", "BUILD"},
                        k \in 1..Len(clauses), stacked \in BOOLEAN }
    /\ codenodes = <<>>
    /\ walker = NoWalker
    /\ codetree = NoCodeTree

\* Lines 74-94 on the drawn locals; pc becomes next_state, or "raised".
DispatchStep ==
    /\ pc = "dispatch"
    /\ grouper' = Dispatch(grouper).g
    /\ pc' = IF Dispatch(grouper).g.exc # "" THEN "raised" ELSE Dispatch(grouper).next
    /\ UNCHANGED <<source, heap, result, clauses, codenodes, walker, codetree>>

\* Lines 96-115 on the drawn locals and next_state = pc.
TransitionStep ==
    /\ pc \in ParseState \cup {NoState}
    /\ grouper' = LoopExit(Transition(grouper, pc))
    /\ pc' = "transitioned"
    /\ UNCHANGED <<source, heap, result, clauses, codenodes, walker, codetree>>

\* Lines 66-73 of the next iteration: the loop goes on while state is not
\* DONE, and fetches a clause when get_next is set.
FetchStep ==
    /\ pc = "transitioned"
    /\ grouper.exc = ""
    /\ ~grouper.returned
    /\ grouper.state # "DONE"
    /\ grouper' = Fetch(grouper)
    /\ pc' = "dispatch"
    /\ UNCHANGED <<source, heap, result, clauses, codenodes, walker, codetree>>

NextStep == DispatchStep \/ TransitionStep \/ FetchStep

SpecStep == InitStep /\ [][NextStep]_vars

(***************************************************************************)
(* Reading the clause graph that a finished call left in heap.             *)
(***************************************************************************)
\* The call of astoid.parse is over; it returned, or it raised.
ParseOver == pc = "done"

\* The first clause of the root homeroom (the list _parse creates when it is
\* called without one), or None.
RootClause ==
    IF Len(heap.lists) >= 1 /\ Len(heap.lists[1]) >= 1 THEN heap.lists[1][1] ELSE NoneRef

ChildrenOf(a) == heap.lists[heap.astoids[a].children]

\* Astoid.walk: the node, then the walk of each child in list order.
RECURSIVE walk(_)
RECURSIVE WalkAll(_)
WalkAll(list) == IF list = <<>> THEN <<>> ELSE walk(Head(list)) \o WalkAll(Tail(list))
walk(self) == <<self>> \o WalkAll(ChildrenOf(self))

\* The clauses met from a by following successor, while it names a clause.
RECURSIVE SuccessorChain(_, _)
SuccessorChain(a, fuel) ==
    IF a < 1 \/ a > Len(heap.astoids) \/ fuel = 0 THEN <<>>
    ELSE <<a>> \o SuccessorChain(heap.astoids[a].successor, fuel - 1)

\* The clauses in the children list of the root clause: the nesting level of
\* the statements of the module.
TopLevel == IF RootClause = NoneRef THEN <<>> ELSE ChildrenOf(RootClause)
TagsOf(list) == [i \in 1..Len(list) |-> heap.astoids[list[i]].clause]

\* The clauses of the tree, in walk order.
Tree == IF RootClause = NoneRef THEN <<>> ELSE walk(RootClause)
InTree(a) == \E i \in 1..Len(Tree) : Tree[i] = a

\* Shapes of the module under construction.
IsCascade(n) ==
    /\ n.kind = "If"
    /\ Len(n.orelse) = 1
    /\ n.orelse[1].kind = "If"
    /\ n.orelse[1].elif_line
OnlyStatement == source.body[1]
OneStatement(kind) == Len(source.body) = 1 /\ source.body[1].kind = kind

(***************************************************************************)
(* Claims about the Clause Builder.                                        *)
(***************************************************************************)
\* C1: when the Clause Builder has finished on a syntax tree with statements,
\* it has returned, and following successor from the root clause until None
\* visits every clause exactly once, in the order of Astoid.walk from the root.
C1_SuccessorOrderIsWalk ==
    ParseOver /\ Len(source.body) > 0 =>
        /\ heap.exc = ""
        /\ RootClause # NoneRef
        /\ SuccessorChain(RootClause, Len(heap.astoids) + 1) = Tree
        /\ Len(Tree) = Len(heap.astoids)
        /\ heap.astoids[Tree[Len(Tree)]].successor = NoneRef

\* C2: for a module that is one conditional with a cascaded alternate branch
\* (elif), construction completes, and the clauses at the level of the outer
\* conditional start with its Body clause followed immediately by the ELIF
\* clause of the inner conditional, which holds the clauses of the inner
\* branch's statements.
C2_ElifPromotedToSibling ==
    ParseOver /\ OneStatement("If") /\ IsCascade(OnlyStatement) =>
        /\ heap.exc = ""
        /\ Len(TopLevel) >= 2
        /\ heap.astoids[TopLevel[1]].clause = "BODY"
        /\ heap.astoids[TopLevel[1]].ast_node = OnlyStatement
        /\ heap.astoids[TopLevel[2]].clause = "ELIF"
        /\ heap.astoids[TopLevel[2]].ast_node = OnlyStatement.orelse[1]
        /\ Len(ChildrenOf(TopLevel[2])) >= Len(OnlyStatement.orelse[1].body)

C4_BodyElifElse ==
    ParseOver /\ OneStatement("If") /\ IsCascade(OnlyStatement)
              /\ Len(OnlyStatement.orelse[1].orelse) > 0
              /\ ~IsCascade(OnlyStatement.orelse[1]) =>
        /\ heap.exc = ""
        /\ TagsOf(TopLevel) = <<"BODY", "ELIF", "ELSE">>
        /\ Len(ChildrenOf(TopLevel[2])) >= Len(OnlyStatement.orelse[1].body)

C8_ReturnsRootClause ==
    ParseOver /\ Len(source.body) > 0 =>
        /\ result = AstoidObject(RootClause)
        /\ RootClause # NoneRef
        /\ \A i \in 1..Len(Tree) :
              /\ heap.astoids[Tree[i]].prev_sibling # Ellipsis
              /\ heap.astoids[Tree[i]].next_sibling # Ellipsis

\* The clause tags the decomposition rule of a try statement lists, in order.
RECURSIVE HandlerTags(_)
HandlerTags(handlers) ==
    IF handlers = <<>> THEN <<>>
    ELSE (IF Len(Head(handlers).body) > 0 THEN <<"EXCEPT">> ELSE <<>>)
         \o HandlerTags(Tail(handlers))
TryTags(n) ==
    (IF Len(n.body) > 0 THEN <<"BODY">> ELSE <<>>)
    \o HandlerTags(n.handlers)
    \o (IF Len(n.orelse) > 0 THEN <<"ELSE">> ELSE <<>>)
    \o (IF Len(n.finalbody) > 0 THEN <<"FINALLY">> ELSE <<>>)

\* The members of the sequence q that are in the sequence list, in q's order.
RECURSIVE Restrict(_, _)
Restrict(q, list) ==
    IF q = <<>> THEN <<>>
    ELSE (IF \E i \in 1..Len(list) : list[i] = Head(q) THEN <<Head(q)>> ELSE <<>>)
         \o Restrict(Tail(q), list)

\* C9: for a module that is one try statement, the clauses at its level are,
\* in this order, Body, one EXCEPT clause per handler, ELSE if the completion
\* branch has statements, FINALLY if the cleanup branch has; they are siblings
\* in one children list and come in the same order in the successor order.
C9_TryClauseOrder ==
    ParseOver /\ OneStatement("Try") =>
        /\ TagsOf(TopLevel) = TryTags(OnlyStatement)
        /\ Restrict(SuccessorChain(RootClause, Len(heap.astoids) + 1), TopLevel) = TopLevel

\* C10: for a module that is one loop, a Body clause of the loop is in the
\* tree iff the loop body has statements and an ELSE clause of the loop is in
\* the tree iff the exhaustion branch has statements; and no clause of the
\* tree with a tag has an empty children list.
C10_LoopClausesIffBranches ==
    ParseOver /\ OneStatement("For") =>
        /\ (\E i \in 1..Len(Tree) : /\ heap.astoids[Tree[i]].clause = "BODY"
                                    /\ heap.astoids[Tree[i]].ast_node = OnlyStatement)
              <=> Len(OnlyStatement.body) > 0
        /\ (\E i \in 1..Len(Tree) : /\ heap.astoids[Tree[i]].clause = "ELSE"
                                    /\ heap.astoids[Tree[i]].ast_node = OnlyStatement)
              <=> Len(OnlyStatement.orelse) > 0
        /\ \A i \in 1..Len(Tree) :
              heap.astoids[Tree[i]].clause # NoClause => Len(ChildrenOf(Tree[i])) > 0

\* A statement with statement lists of its own.
Compound(n) == Len(n.body) + Len(n.orelse) + Len(n.handlers) + Len(n.finalbody) > 0

\* C11: the builder constructs the clause graph of a module with statements,
\* and in it the tag of a clause is None iff the clause wraps a statement that
\* is not compound (the tag is not None iff it wraps a compound construct).
C11_TagNoneIffSimple ==
    ParseOver /\ Len(source.body) > 0 =>
        /\ RootClause # NoneRef
        /\ Len(Tree) > Len(source.body)
        /\ \A i \in 1..Len(Tree) :
              heap.astoids[Tree[i]].clause = NoClause
                  <=> ~Compound(heap.astoids[Tree[i]].ast_node)

SiblingsLinked(list) ==
    \A j \in 1..Len(list) :
        /\ heap.astoids[list[j]].prev_sibling = (IF j = 1 THEN NoneRef ELSE list[j - 1])
        /\ heap.astoids[list[j]].next_sibling = (IF j = Len(list) THEN NoneRef ELSE list[j + 1])

\* The triples are one per item, in list order, each with its neighbours.
TriplesOf(list) ==
    [j \in 1..Len(list) |->
        <<IF j = 1 THEN NoneRef ELSE list[j - 1], list[j],
          IF j = Len(list) THEN NoneRef ELSE list[j + 1]>>]

\* C15: after the construction of the clauses of a module with statements,
\* the clause tree exists and every children list of it has the sibling links
\* of a list (None at the ends, neighbours in between), and
\* iterate_with_siblings gives one triple per member of the list, in order.
C15_SiblingLinksFollowLists ==
    ParseOver /\ Len(source.body) > 0 =>
        /\ RootClause # NoneRef
        /\ Len(Tree) > Len(source.body)
        /\ \A i \in 1..Len(Tree) :
              /\ SiblingsLinked(ChildrenOf(Tree[i]))
              /\ iterate_with_siblings(ChildrenOf(Tree[i])) = TriplesOf(ChildrenOf(Tree[i]))

(***************************************************************************)
(* Claims about the iterators.                                             *)
(***************************************************************************)
\* The node and its descendants, by the lists walk() reads.
RECURSIVE Subtree(_, _)
RECURSIVE SubtreeAll(_, _)
Subtree(kind, n) == {n} \cup SubtreeAll(kind, WalkChildren(kind, n))
SubtreeAll(kind, list) ==
    IF list = <<>> THEN {}
    ELSE Subtree(kind, Head(list)) \cup SubtreeAll(kind, Tail(list))

Occurs(q, x) == \E k \in 1..Len(q) : q[k] = x
Position(q, x) == CHOOSE k \in 1..Len(q) : q[k] = x
NoRepeat(q) == \A i, j \in 1..Len(q) : i # j => q[i] # q[j]
Before(q, x, y) == Occurs(q, y) => Occurs(q, x) /\ Position(q, x) < Position(q, y)

\* C16: a generator of Astoid.walk started at a clause node yields only that
\* node and its descendants, none twice, every parent before its children and
\* the children of a node in list order; when it is exhausted it has yielded
\* all of them; and a generator requested of the same node after it yields
\* the same sequence.
C16_AstoidWalkYieldsSubtreeInOrder ==
    walker.kind = "astoid" =>
        /\ NoRepeat(walker.yielded)
        /\ \A k \in 1..Len(walker.yielded) :
              walker.yielded[k] \in Subtree("astoid", walker.root)
        /\ \A x \in Subtree("astoid", walker.root) :
              \A j \in 1..Len(ChildrenOf(x)) :
                /\ Before(walker.yielded, x, ChildrenOf(x)[j])
                /\ j > 1 => Before(walker.yielded, ChildrenOf(x)[j - 1], ChildrenOf(x)[j])
        /\ walker.exhausted =>
              { walker.yielded[k] : k \in 1..Len(walker.yielded) }
                  = Subtree("astoid", walker.root)
        /\ walker.exhausted /\ walker.previous.kind = "astoid"
                             /\ walker.previous.root = walker.root =>
              walker.previous.yielded = walker.yielded

\* A second generator of the same clause node, which has children whose list
\* order is not the order of creation, is exhausted after a first one was.
C16_Witness ==
    /\ walker.kind = "astoid"
    /\ walker.exhausted
    /\ walker.previous.kind = "astoid"
    /\ walker.previous.root = walker.root
    /\ Len(walker.yielded) >= 4
    /\ \E k \in 1..(Len(walker.yielded) - 1) : walker.yielded[k] > walker.yielded[k + 1]

\* C17: a generator of walk() started at a code node, run to its end, has
\* yielded the node and every descendant exactly once, whatever the classes
\* of the nodes (CodeNode or DefNode).
C17_CodeWalkYieldsEachOnce ==
    walker.kind = "code" /\ walker.exhausted =>
        /\ NoRepeat(walker.yielded)
        /\ { walker.yielded[k] : k \in 1..Len(walker.yielded) }
              = Subtree("code", walker.root)

\* The last clause of the subtree of a, in walk order.
LastOfSubtree(a) == walk(a)[Len(walk(a))]

\* The else placeholders of the cascaded conditional n: the ELSE clauses made
\* for n itself.
IsPlaceholderOf(a, n) ==
    heap.astoids[a].clause = "ELSE" /\ heap.astoids[a].ast_node = n

\* C21: for a module that is one conditional with a cascaded alternate
\* branch, the promoted ELIF clause has as predecessor the last clause of the
\* subtree of the outer Body clause, that clause has the ELIF clause as
\* successor, and the else placeholder of the outer conditional is not met
\* when successor is followed from the root clause.
C21_PromotedClauseFollowsPrimarySubtree ==
    ParseOver /\ OneStatement("If") /\ IsCascade(OnlyStatement) =>
        /\ heap.exc = ""
        /\ Len(TopLevel) >= 2
        /\ heap.astoids[TopLevel[2]].clause = "ELIF"
        /\ heap.astoids[TopLevel[2]].predecessor = LastOfSubtree(TopLevel[1])
        /\ heap.astoids[LastOfSubtree(TopLevel[1])].successor = TopLevel[2]
        /\ \A i \in 1..Len(SuccessorChain(RootClause, Len(heap.astoids) + 1)) :
              ~IsPlaceholderOf(SuccessorChain(RootClause, Len(heap.astoids) + 1)[i],
                               OnlyStatement)

\* C29: when the Clause Builder has finished on a module with statements, it
\* has built the clause tree, and over the clauses of the tree successor and
\* predecessor are inverse: a names b as successor exactly when b names a as
\* predecessor.
C29_SuccessorInverseOfPredecessor ==
    ParseOver /\ Len(source.body) > 0 =>
        /\ heap.exc = ""
        /\ Len(Tree) >= 2
        /\ \A a, b \in 1..Len(heap.astoids) :
              InTree(a) /\ InTree(b) =>
                  (heap.astoids[a].successor = b <=> heap.astoids[b].predecessor = a)

\* The number of positions of list at which x stands.
CountIn(list, x) == Cardinality({ i \in 1..Len(list) : list[i] = x })

\* C30: when the Clause Builder has finished on a module with statements,
\* every clause of the tree but the root is exactly once in the children
\* list of its parent, that list is its homeroom, and no clause of the tree
\* has an else placeholder that is outside the tree as parent.
C30_ChildOnceInParentsHomeroom ==
    ParseOver /\ Len(source.body) > 0 =>
        /\ heap.exc = ""
        /\ Len(Tree) >= 2
        /\ \A a \in 1..Len(heap.astoids) :
              InTree(a) /\ a # RootClause =>
                  /\ heap.astoids[a].parent >= 1
                  /\ InTree(heap.astoids[a].parent)
                  /\ heap.astoids[a].homeroom
                        = heap.astoids[heap.astoids[a].parent].children
                  /\ CountIn(heap.lists[heap.astoids[a].homeroom], a) = 1

\* A link of a clause of the tree is None or a clause of the tree.
LinkInTree(ref) == ref = NoneRef \/ (ref >= 1 /\ InTree(ref))

\* C31: when the Clause Builder has finished on a module with statements, it
\* has built the clause tree, and no clause of the tree has the unset
\* placeholder or a clause outside the tree as predecessor or successor: the
\* predecessor of the first clause and the successor of the last are None,
\* and every other link is a clause of the tree.
C31_NoDanglingOrUnsetLink ==
    ParseOver /\ Len(source.body) > 0 =>
        /\ heap.exc = ""
        /\ Len(Tree) >= 2
        /\ heap.astoids[Tree[1]].predecessor = NoneRef
        /\ heap.astoids[Tree[Len(Tree)]].successor = NoneRef
        /\ \A i \in 1..Len(Tree) :
              /\ LinkInTree(heap.astoids[Tree[i]].predecessor)
              /\ LinkInTree(heap.astoids[Tree[i]].successor)
              /\ i > 1 => heap.astoids[Tree[i]].predecessor # NoneRef
              /\ i < Len(Tree) => heap.astoids[Tree[i]].successor # NoneRef

(***************************************************************************)
(* Claims about repeated runs of the Clause Builder.                       *)
(***************************************************************************)
\* A reference of the first run, as the second run would hold it when it
\* builds the same graph after n objects of the same sort exist.
Shifted(ref, n) == IF ref > 0 THEN ref + n ELSE ref

ShiftedAstoid(a, n, m) ==
    [a EXCEPT !.parent = Shifted(@, n), !.predecessor = Shifted(@, n),
              !.successor = Shifted(@, n), !.prev_sibling = Shifted(@, n),
              !.next_sibling = Shifted(@, n),
              !.homeroom = Shifted(@, m), !.children = Shifted(@, m)]

ShiftedList(l, n) == [i \in 1..Len(l) |-> Shifted(l[i], n)]

\* The objects of the first run are in st, those of both in st2.
SameGraphTwice(st, st2) ==
    /\ Len(st2.astoids) = 2 * Len(st.astoids)
    /\ Len(st2.lists) = 2 * Len(st.lists)
    /\ \A i \in 1..Len(st.astoids) :
          st2.astoids[Len(st.astoids) + i]
              = ShiftedAstoid(st.astoids[i], Len(st.astoids), Len(st.lists))
    /\ \A i \in 1..Len(st.lists) :
          st2.lists[Len(st.lists) + i] = ShiftedList(st.lists[i], Len(st.astoids))

FirstRunUntouched(st, st2) ==
    /\ Len(st2.astoids) >= Len(st.astoids)
    /\ Len(st2.lists) >= Len(st.lists)
    /\ \A i \in 1..Len(st.astoids) : st2.astoids[i] = st.astoids[i]
    /\ \A i \in 1..Len(st.lists) : st2.lists[i] = st.lists[i]

\* C19: two runs of the Clause Builder on the same source each produce a
\* clause graph, the two graphs have the same tree and the same linear order,
\* and the second run leaves every object of the first as it was and links
\* none of its own objects to them.
C19_RunsAgreeAndShareNothing ==
    [][pc = "done" /\ pc' = "again" =>
          /\ result.kind # "None" /\ result'.kind # "None"
          /\ Len(heap.astoids) > 0
          /\ SameGraphTwice(heap, heap')
          /\ FirstRunUntouched(heap, heap')]_vars

\* Objects are numbered in the order of their creation, so the clause created
\* just before clause i, the tail at the creation of i, is clause i - 1.
TailAtCreation(i) == IF i = 1 THEN NoneRef ELSE i - 1

\* C20: every clause the builder creates for a source with statements has as
\* predecessor the clause created just before it (the current tail), that
\* clause has the new one as successor, and so the clauses form one chain in
\* the order of creation.
C20_NewClauseFollowsTail ==
    pc = "done" /\ Len(source.body) > 0 =>
        /\ heap.exc = ""
        /\ Len(heap.astoids) > 0
        /\ \A i \in 1..Len(heap.astoids) :
              /\ heap.astoids[i].predecessor = TailAtCreation(i)
              /\ i > 1 => heap.astoids[i - 1].successor = i

(***************************************************************************)
(* Claims about the children of a module node.                             *)
(***************************************************************************)
Mapped(i) == source.body[i].kind \in DOMAIN CodeTypeMap

\* Statement i starts a maximal run of statements outside the type map.
StartsRun(i) == ~Mapped(i) /\ (i = 1 \/ Mapped(i - 1))

\* The position, among the children, of the child that holds statement i.
ChildOf(i) == Cardinality({ j \in 1..i : Mapped(j) \/ StartsRun(j) })

ModuleChildrenOf == codenodes[1].children

\* C28: when the module node has built its children from the statements of
\* the module, every statement of a kind in the type map has a child of its
\* own, of the class the map gives, every maximal run of other statements
\* has exactly one line-block child, and the children are in source order,
\* so that no two adjacent children are line blocks.
C28_ChildrenAreDefsAndMaximalRuns ==
    pc = "built" =>
        /\ codetree.exc = ""
        /\ Len(ModuleChildrenOf) = ChildOf(Len(source.body))
        /\ \A i \in 1..Len(source.body) :
              codenodes[ModuleChildrenOf[ChildOf(i)]].cls =
                  IF Mapped(i) THEN CodeTypeMap[source.body[i].kind] ELSE "LineBlockNode"
        /\ \A j \in 1..(Len(ModuleChildrenOf) - 1) :
              ~(/\ codenodes[ModuleChildrenOf[j]].cls = "LineBlockNode"
                /\ codenodes[ModuleChildrenOf[j + 1]].cls = "LineBlockNode")

(***************************************************************************)
(* Claims about code_tree.                                                 *)
(***************************************************************************)
\* The outermost directory of the unbroken chain of directories with an
\* __init__.py that ends at the folder of the target: the top-level package.
TopLevelPackage(dirs) == ClimbWhileInit(dirs, Len(dirs)) + 1

\* C18: when the target is a module or an __init__.py in a folder that holds
\* an __init__.py, code_tree returns a package node whose path is the
\* top-level package, the outermost ancestor directory with an __init__.py,
\* not the parent of that directory.
C18_RootIsTopLevelPackage ==
    codetree.called /\ codetree.target # "missing"
                    /\ HasInit(codetree.dirs, Len(codetree.dirs)) =>
        /\ codetree.exc = ""
        /\ codetree.ret.cls = "PackageNode"
        /\ codetree.ret.source_path = TopLevelPackage(codetree.dirs)

(***************************************************************************)
(* Claims about the Block Grouper.                                         *)
(***************************************************************************)
\* The loop is over: it raised, or it left the loop and returned.
LoopOver == pc = "loop" /\ (grouper.exc # "" \/ grouper.returned)

\* The clause lists of the Block Nodes, concatenated in the order the blocks
\* were opened (the pre-order of the block tree).
RECURSIVE BlockClauses(_)
BlockClauses(cnodes) ==
    IF cnodes = <<>> THEN <<>> ELSE Head(cnodes).astoids \o BlockClauses(Tail(cnodes))

Contiguous(q) == \A i \in 1..(Len(q) - 1) : q[i + 1] = q[i] + 1

\* C6: when the Block Grouper is over on the clause order of a module, the
\* positions of the clauses of every Block Node are a contiguous range, and
\* the clause lists of all Block Nodes, concatenated in pre-order, are the
\* clause order with every clause exactly once.
C6_BlocksPartitionClauseOrder ==
    LoopOver =>
        /\ \A c \in 1..Len(grouper.cnodes) : Contiguous(grouper.cnodes[c].astoids)
        /\ BlockClauses(grouper.cnodes) = [i \in 1..Len(clauses) |-> i]

\* C7: the loop of the Block Grouper ends only by reaching Done: it never
\* processes a missing (None) clause in NewBlock or Build, and when it is over
\* the machine is in Done and parse has returned the Block Node.
C7_GrouperReachesDone ==
    pc = "loop" =>
        /\ grouper.exc # NoneHasNoType
        /\ (LoopOver => grouper.state = "DONE" /\ grouper.returned)
\* The error the indentation rule raises for indentation strings that are
\* neither equal nor one a prefix of the other.
MalformedIndentation == "Exception: malformed indentation"

\* The current clause is one no Block Node has taken.
Unconsumed(g) ==
    /\ g.astoid # NoneRef
    /\ \A c \in 1..Len(g.cnodes) : \A i \in 1..Len(g.cnodes[c].astoids) :
          g.cnodes[c].astoids[i] # g.astoid

\* C13: a step of the Block Grouper that handles EndBlock with an empty block
\* stack while the current clause is unconsumed raises; it does not make the
\* state Done.
C13_EndBlockOnEmptyStackRaises ==
    [][pc = "ENDBLOCK" /\ Len(grouper.stack) = 0 /\ Unconsumed(grouper) =>
          grouper'.exc # "" /\ grouper'.state # "DONE" /\ ~grouper'.returned]_vars

Opened(g) == g.cnodes[Len(g.cnodes)]

\* C22: a step of the Block Grouper in NewBlock on a clause that no Block Node
\* has taken creates one Block
\* Node whose parent is the parent context and whose clause list is the
\* current clause, without raising, whatever the type of the clause; for a
\* simple statement (tag None) the Block Node is a CnodeBlock and the next
\* state is Build, for a class or function it is of the class the type map
\* gives.
C22_NewBlockOpensBlockForEveryClause ==
    [][pc = "dispatch" /\ grouper.state = "NEWBLOCK" /\ Unconsumed(grouper) =>
          /\ grouper'.exc = ""
          /\ Len(grouper'.cnodes) = Len(grouper.cnodes) + 1
          /\ Opened(grouper').astoids = <<grouper.astoid>>
          /\ Opened(grouper').parent = grouper.parent_cnode
          /\ clauses[grouper.astoid][2] = NoClause =>
                Opened(grouper').cls = "CnodeBlock" /\ pc' = "BUILD"
          /\ clauses[grouper.astoid][1] \in DOMAIN ast_type_map =>
                Opened(grouper').cls = ast_type_map[clauses[grouper.astoid][1]]]_vars

\* C23: a step of the Block Grouper in Build on a clause that no Block Node
\* has taken, the current Block Node not being that of the module, either
\* appends the clause to the clause list of the current
\* Block Node and stays in Build, or asks for EndBlock and changes no Block
\* Node; the clause stays the current one.
C23_BuildAppendsOrDedents ==
    [][pc = "dispatch" /\ grouper.state = "BUILD" /\ grouper.cnode # NoneRef
                       /\ Unconsumed(grouper)
                       /\ grouper.cnodes[grouper.cnode].cls # "CnodeModule" =>
          /\ grouper'.exc = ""
          /\ grouper'.astoid = grouper.astoid
          /\ \/ /\ pc' = "BUILD"
                /\ grouper'.cnodes =
                      [grouper.cnodes EXCEPT ![grouper.cnode].astoids =
                                                Append(@, grouper.astoid)]
             \/ /\ pc' = "ENDBLOCK"
                /\ grouper'.cnodes = grouper.cnodes]_vars

\* The Block Node on top of the stack.
Top(g) == g.stack[Len(g.stack)]

AddAstoidTargets(c) ==
    /\ pc = "dispatch" /\ pc' # "dispatch"
    /\ grouper.state = "BUILD"
    /\ grouper.cnode = c

\* C25: a Block Node that was popped off the stack is sealed: no later step
\* changes its clause list, and no later step calls add_astoid on it.
C25_PoppedBlockIsSealed ==
    [][\A c \in grouper.popped :
          /\ grouper'.cnodes[c] = grouper.cnodes[c]
          /\ ~AddAstoidTargets(c)]_vars

ContainerClasses == {"CnodePackage", "CnodeModule"}

\* C26: a Block Node that a NewBlock step creates for a clause no Block Node
\* has taken, and that is not a Package or Module container, has at least one
\* clause when the step is over: the grouper never holds a Block Node with a
\* parent and an empty clause list.
C26_NoClauselessBlock ==
    [][pc = "dispatch" /\ grouper.state = "NEWBLOCK" /\ Unconsumed(grouper)
                       /\ Len(grouper'.cnodes) > Len(grouper.cnodes)
                       /\ Opened(grouper').cls \notin ContainerClasses =>
          Len(Opened(grouper').astoids) >= 1]_vars

\* C27: the first iteration of the Block Grouper, on the clause of the module,
\* creates the Block Node of the module, which takes the clause and asks for
\* NewBlock, so that it is pushed and becomes the parent context; and no later
\* step adds a clause to the Block Node of a module that has one.
C27_ModuleTakesItsBodyOnly ==
    [][/\ pc = "loop" /\ grouper.consumed = 0 =>
             /\ grouper'.exc = ""
             /\ Len(grouper'.cnodes) = 1
             /\ grouper'.cnodes[1] = [cls |-> "CnodeModule", parent |-> NoneRef,
                                      astoids |-> <<1>>]
             /\ grouper'.state = "NEWBLOCK"
             /\ grouper'.stack = <<1>>
             /\ grouper'.parent_cnode = 1
       /\ \A c \in 1..Len(grouper.cnodes) :
             grouper.cnodes[c].cls = "CnodeModule" /\ Len(grouper.cnodes[c].astoids) = 1 =>
                 grouper'.cnodes[c] = grouper.cnodes[c]]_vars

\* The block on top of the stack, or the parent the caller of parse supplied
\* (None) when the stack is empty.
TopOrCaller(g) == IF Len(g.stack) = 0 THEN NoneRef ELSE Top(g)

\* The stack of g is a parent chain, the parent context is its top, and the
\* current block, if any, hangs below the top; a block that asked for
\* NewBlock is at hand to be pushed.
ParentChain(g, next_state) ==
    /\ \A i \in 1..Len(g.stack) :
          /\ g.stack[i] # NoneRef
          /\ g.cnodes[g.stack[i]].parent = (IF i = 1 THEN NoneRef ELSE g.stack[i - 1])
    /\ g.parent_cnode = TopOrCaller(g)
    /\ g.cnode # NoneRef => g.cnodes[g.cnode].parent = TopOrCaller(g)
    /\ next_state = "NEWBLOCK" => g.cnode # NoneRef

NextInWalkOrder(g) == IF g.consumed < Len(clauses) THEN g.consumed + 1 ELSE NoneRef

\* C33: the loop of the Block Grouper fetches the clauses in walk order, one
\* at a time, and passes the current clause to add_astoid in the iteration
\* that fetched it: a fetch takes the clause after the last one fetched, a
\* dispatch in NewBlock or Build that does not raise before the call calls
\* add_astoid with the current clause, the handling of next_state neither
\* fetches nor calls, and the fetch is left out, so that the clause is
\* presented a second time, only in the iteration after a pop.
C33_ClausesPresentedInWalkOrder ==
    [][/\ pc = "transitioned" /\ pc' = "dispatch" /\ grouper.get_next =>
             /\ grouper'.astoid = NextInWalkOrder(grouper)
             /\ grouper'.consumed \in {grouper.consumed + 1, Len(clauses)}
             /\ grouper'.presented = grouper.presented
       /\ pc = "transitioned" /\ pc' = "dispatch" /\ ~grouper.get_next =>
             /\ grouper'.astoid = grouper.astoid
             /\ grouper'.consumed = grouper.consumed
             /\ grouper'.presented = grouper.presented
             /\ grouper.cnode \in grouper.popped
             /\ grouper.state = "BUILD"
       /\ pc = "dispatch" /\ pc' # "dispatch" =>
             /\ grouper'.astoid = grouper.astoid
             /\ grouper'.consumed = grouper.consumed
             /\ \/ grouper'.presented = Append(grouper.presented, grouper.astoid)
                \/ grouper'.exc # "" /\ grouper'.presented = grouper.presented
             /\ grouper'.exc = "" =>
                   grouper'.presented = Append(grouper.presented, grouper.astoid)
       /\ pc \in ParseState \cup {NoState} =>
             /\ grouper'.astoid = grouper.astoid
             /\ grouper'.consumed = grouper.consumed
             /\ grouper'.presented = grouper.presented
             /\ ~grouper'.get_next => pc = "ENDBLOCK" /\ Len(grouper.stack) > 0]_vars

\* Two clauses were presented one after the other, in walk order.
C33_Witness ==
    /\ Len(grouper.presented) = 2
    /\ grouper.presented[1] # NoneRef
    /\ grouper.presented[2] = grouper.presented[1] + 1
    /\ grouper.consumed = grouper.presented[2]

\* C34: every iteration of the loop of the Block Grouper starts in NewBlock
\* or Build: the state stored by the handling of next_state is never EndBlock,
\* the loop is left when it is Done, the error 'Invalid state' is never
\* raised, and 'Invalid state transition' is raised only for a next_state that
\* is none of the four states.
C34_IterationsStartInNewBlockOrBuild ==
    [][/\ pc' = "dispatch" => grouper'.state \in {"NEWBLOCK", "BUILD"}
       /\ pc \in ParseState \cup {NoState} /\ grouper'.exc = "" =>
             /\ grouper'.state \in {"NEWBLOCK", "BUILD", "DONE"}
             /\ grouper'.state = "DONE" <=> grouper'.returned
       /\ grouper'.exc # "Exception: Invalid state"
       /\ grouper'.exc = "Exception: Invalid state transition" =>
             pc \notin ParseState /\ pc = NoState]_vars

\* An iteration starts in Build after a request for EndBlock emptied the
\* stack.
C34_Witness ==
    /\ pc = "dispatch"
    /\ grouper.state = "BUILD"
    /\ grouper.popped # {}
    /\ Len(grouper.stack) = 0
    /\ grouper.exc = ""

\* The clause p is the else placeholder the promotion of the ELIF clause a
\* started from: made before a for the conditional whose alternate branch
\* is the node of a, of type (If, ELSE), and a took its parent and homeroom.
PromotedFrom(a, p) ==
    /\ p < a
    /\ heap.astoids[p].type = <<"If", "ELSE">>
    /\ heap.astoids[p].ast_node.orelse = <<heap.astoids[a].ast_node>>
    /\ heap.astoids[a].parent = heap.astoids[p].parent
    /\ heap.astoids[a].homeroom = heap.astoids[p].homeroom

C36_EmptyModuleGivesEmptyGraph ==
    ParseOver /\ Len(source.body) = 0 =>
        /\ heap.exc = ""
        /\ result # NoObject
        /\ Len(heap.astoids) = 0
        /\ RootClause = NoneRef

\* The clauses of the tree of heap h under the clause a, in pre-order.
RECURSIVE PreOrder(_, _)
RECURSIVE PreOrderAll(_, _)
PreOrderAll(h, list) ==
    IF list = <<>> THEN <<>> ELSE PreOrder(h, Head(list)) \o PreOrderAll(h, Tail(list))
PreOrder(h, a) == <<a>> \o PreOrderAll(h, h.lists[h.astoids[a].children])

\* C38: after introduce_siblings, determine_successor and
\* determine_predecessor were applied in this order to the root of a clause
\* tree, no helper has raised, the predecessor of the root is None, the
\* successor of the last clause in pre-order is None, and no clause has the
\* unset placeholder as predecessor or successor.
C38_HelpersCloseBothEnds ==
    pc = "linked" =>
        /\ heap.exc = ""
        /\ heap.astoids[1].predecessor = NoneRef
        /\ heap.astoids[PreOrder(heap, 1)[Len(heap.astoids)]].successor = NoneRef
        /\ \A a \in 1..Len(heap.astoids) :
              /\ heap.astoids[a].predecessor # Ellipsis
              /\ heap.astoids[a].successor # Ellipsis

\* The heap after determine_successor and determine_predecessor were applied
\* to the root clause of the tree that astoid.parse left.
Rederived == determine_predecessor(determine_successor(heap, RootClause), RootClause)

\* C37: when the Clause Builder has finished on a module with statements, it
\* has built the clause tree, and determine_successor and
\* determine_predecessor applied to the root of the tree do not raise and
\* give every clause of the tree the successor and the predecessor that the
\* construction pass threaded.
C37_DerivedLinksEqualThreadedLinks ==
    ParseOver /\ Len(source.body) > 0 =>
        /\ heap.exc = ""
        /\ Len(Tree) >= 2
        /\ Rederived.exc = ""
        /\ \A i \in 1..Len(Tree) :
              /\ Rederived.astoids[Tree[i]].successor = heap.astoids[Tree[i]].successor
              /\ Rederived.astoids[Tree[i]].predecessor
                    = heap.astoids[Tree[i]].predecessor
====
